---- MODULE Spec2Model ----
(***************************************************************************)
(* A model of scalene/scalene.py: the statistics store of class Scalene,   *)
(* the CPU tick handler, the malloc/free handler with its bridge files,    *)
(* the report writer, the command-line driver (main) and the replaced      *)
(* Thread.join.                                                            *)
(*                                                                         *)
(* Time is counted in clock units, Interval of them to one                 *)
(* mean_signal_interval.  Amounts of CPU time stored in the tables are     *)
(* kept in 1/Scale of a clock unit so that the division by the number of   *)
(* retained frames is exact.  Memory is counted in whole megabytes.        *)
(***************************************************************************)
EXTENDS Integers, Sequences, FiniteSets, TLC

\* ---------------------------------------------------------------- bounds
MaxClock == 3
MaxEvents == 3
MaxThreads == 1
MaxLine == 2
MaxOffset == 1
MaxStatus == 2
MaxTimeout == 2
MaxWall == 4
MaxPath == 4
MaxNumbers == 2
MaxNumber == 3
MaxDepth == 2

\* ------------------------------------------------------ program constants
\* mean_signal_interval (0.01 s), in clock units
Interval == 2
\* sys.getswitchinterval() (0.005 s), in clock units
SwitchInterval == 1
\* float("inf")
Inf == 1000000
\* --profile-interval S, when given
ProfileInterval == 2
ShortInterval == 1
\* reservoir.reservoir(47), reservoir.reservoir(10)
GlobalCapacity == 47
LineCapacity == 10
\* 1024 * 1024
BytesPerMB == 1024 * 1024

RECURSIVE Factorial(_)
Factorial(n) == IF n <= 1 THEN 1 ELSE n * Factorial(n - 1)
\* denominator of the stored CPU amounts: every N in 1..MaxThreads+1 divides it
Scale == Factorial(MaxThreads + 1)

\* ------------------------------------------------------------ file names
\* A file name is a sequence of symbols; "/" separates, the long literals that
\* should_trace looks for are one symbol each.
ProgramPath == <<"/", "p">>
ProgFile == <<"/", "p", "/", "a">>
\* '/usr/lib/python'
StdlibPrefix == <<"/", "usr/lib/python">>
LibFile == StdlibPrefix \o <<"/", "t">>
EmptyFile == <<>>
ScaleneFile == <<"/", "s", "/", "scalene.py">>
OriginalPath == <<"/", "o">>
NoFrame == <<"None">>

Lines == 1..MaxLine
Offsets == 0..MaxOffset

VARIABLES
  Scalene,   \* the class attributes of Scalene (statistics store and settings)
  fs,        \* the file system: the two bridge files and the working directory
  sig,       \* the timer, the dispositions of the allocation signals, pending signals
  clock,     \* time.process_time()
  wall,      \* wall-clock time
  driver,    \* Scalene.main: its position, how the target ended, what it printed
  join,      \* one call of the replaced Thread.join
  hist,      \* history: what the handlers have done so far
  stack,     \* the handler invocations under way, the innermost last
  probe      \* the last operation observed: its inputs, the state before, its result

vars == <<Scalene, fs, sig, clock, wall, driver, join, hist, stack, probe>>

\* ------------------------------------------------ defaultdict (lazy tables)
EmptyFn == [x \in {} |-> 0]

\* d[k] on a defaultdict: the key is inserted with the default when missing
Touch(d, k, default) == IF k \in DOMAIN d THEN d ELSE d @@ (k :> default)

\* d[f][l], two levels
Touch2(d, f, l, default) ==
  LET d1 == Touch(d, f, EmptyFn)
  IN  [d1 EXCEPT ![f] = Touch(@, l, default)]

\* d[f][l][o], three levels
Touch3(d, f, l, o, default) ==
  LET d2 == Touch2(d, f, l, EmptyFn)
  IN  [d2 EXCEPT ![f][l] = Touch(@, o, default)]

\* d[f][l] += v
Add2(d, f, l, v) ==
  LET d2 == Touch2(d, f, l, 0)
  IN  [d2 EXCEPT ![f][l] = @ + v]

\* d[f][l][o] += v
Add3(d, f, l, o, v) ==
  LET d3 == Touch3(d, f, l, o, 0)
  IN  [d3 EXCEPT ![f][l][o] = @ + v]

\* the keys (f, l, o) of a three-level table
Keys3(d) ==
  { k \in (DOMAIN d) \X Lines \X Offsets :
      /\ k[2] \in DOMAIN d[k[1]]
      /\ k[3] \in DOMAIN d[k[1]][k[2]] }

\* the keys (f, l) of a two-level table
Keys2(d) == { k \in (DOMAIN d) \X Lines : k[2] \in DOMAIN d[k[1]] }

RECURSIVE SumSet(_, _)
\* sum of val[k] over the finite set S
SumSet(S, val) ==
  IF S = {} THEN 0
  ELSE LET k == CHOOSE x \in S : TRUE
       IN  val[k] + SumSet(S \ {k}, val)

\* sum(d[f].values()) over all f
Sum2(d) == SumSet(Keys2(d), [k \in Keys2(d) |-> d[k[1]][k[2]]])

\* ---------------------------------------------------------- should_trace
\* p in s, for sequences of symbols
IsInfix(p, s) ==
  \E i \in 0..(Len(s) - Len(p)) : SubSeq(s, i + 1, i + Len(p)) = p

Contains(s, sym) == \E i \in 1..Len(s) : s[i] = sym

\* os.path.abspath(filename) with the working directory cwd
abspath(filename, cwd) ==
  IF Len(filename) > 0 /\ filename[1] = "/" THEN filename
  ELSE cwd \o <<"/">> \o filename

\* should_trace(filename): "True", "False", or the IndexError of filename[0]
\* on an empty name.  program_path and the working directory do not change
\* while the signals are enabled, so the lru_cache returns what is computed here.
should_trace(filename, cwd, program_path) ==
  IF Len(filename) = 0 THEN "IndexError"
  ELSE IF filename[1] = "<" \/ Contains(filename, "site-packages")
          \/ IsInfix(StdlibPrefix, filename)
    THEN "False"
  ELSE IF Contains(filename, "scalene.py") THEN "False"
  ELSE IF IsInfix(program_path, abspath(filename, cwd)) THEN "True" ELSE "False"

\* ------------------------------------------------------- the bridge files
\* A line of a bridge file: a decimal byte count, or text float() rejects.
NumberLine(n) == [kind |-> "int", bytes |-> n]
GarbageLine == [kind |-> "bad", bytes |-> 0]
LineValues == {NumberLine(BytesPerMB), NumberLine(2 * BytesPerMB), GarbageLine}

MissingFile == [exists |-> FALSE, lines |-> <<>>]

\* float(count_str) / (1024 * 1024), for a line float() accepts
ParseCount(l) == l.bytes \div BytesPerMB

\* ---------------------------------------------------- alloc_handler_helper
\* the footprint were a free sample to leave it as it is
NewFootprintKeepOnFree(cf, count, is_malloc) ==
  IF is_malloc THEN cf + count ELSE cf

\* current_footprint += count / current_footprint -= count
NewFootprint(cf, count, is_malloc) ==
  IF is_malloc THEN cf + count ELSE cf - count

\* the maximum were it never raised
NewMaxNeverRaised(cf, mx, is_malloc) == mx

\* if is_malloc and current_footprint > max_footprint: max_footprint = current_footprint
NewMax(cf, mx, is_malloc) ==
  IF is_malloc /\ cf > mx THEN cf ELSE mx

\* the body of the loop over the file's lines, for one line float() accepts
FoldSample(S, fname, line_no, bytei, is_malloc, count) ==
  LET cf == NewFootprint(S.current_footprint, count, is_malloc)
  IN  IF is_malloc
      THEN [S EXCEPT
             !.memory_malloc_samples = Add3(@, fname, line_no, bytei, count),
             !.total_memory_malloc_samples = @ + count,
             !.current_footprint = cf,
             !.max_footprint = NewMax(cf, @, is_malloc)]
      ELSE [S EXCEPT
             !.memory_free_samples = Add3(@, fname, line_no, bytei, count),
             !.total_memory_free_samples = @ + count,
             !.current_footprint = cf,
             !.max_footprint = NewMax(cf, @, is_malloc)]

\* high after the store became S
Raise(high, S) == IF S.current_footprint > high THEN S.current_footprint ELSE high

\* r after one more line was folded in, giving the store S1
Folded(r, S1) == [r EXCEPT !.S = S1, !.high = Raise(@, S1), !.folded = @ + 1]

RECURSIVE ReadLines(_, _, _, _, _, _)
\* for l, count_str in enumerate(f, 1): ... ; stops at the first line float()
\* rejects (the exception leaves the loop).  r.high is the largest
\* current_footprint seen on the way, r.folded the number of lines folded in.
ReadLines(r, lines, fname, line_no, bytei, is_malloc) ==
  IF lines = <<>> THEN r
  ELSE IF Head(lines).kind # "int" THEN [r EXCEPT !.raised = TRUE]
  ELSE ReadLines(
         Folded(r, FoldSample(r.S, fname, line_no, bytei, is_malloc,
                              ParseCount(Head(lines)))),
         Tail(lines), fname, line_no, bytei, is_malloc)

\* samples = Scalene.memory_malloc_samples[fname][line_no] (or the free table)
helper_entry(r, fname, line_no, is_malloc) ==
  IF is_malloc
  THEN [r EXCEPT !.S.memory_malloc_samples = Touch2(@, fname, line_no, EmptyFn),
                 !.raised = FALSE]
  ELSE [r EXCEPT !.S.memory_free_samples = Touch2(@, fname, line_no, EmptyFn),
                 !.raised = FALSE]

\* the count were it raised whatever was read
bump_count_always(r, file, fname, line_no, bytei, is_malloc) ==
  IF is_malloc
  THEN [r EXCEPT !.S.memory_malloc_count = Add3(@, fname, line_no, bytei, 1)]
  ELSE [r EXCEPT !.S.memory_free_count = Add3(@, fname, line_no, bytei, 1)]

\* if read_something: counter[fname][line_no][bytei] += 1
\* (read_something is set as soon as a line is read, before it is parsed)
bump_count(r, file, fname, line_no, bytei, is_malloc) ==
  IF ~(file.exists /\ Len(file.lines) > 0) THEN r
  ELSE IF is_malloc
    THEN [r EXCEPT !.S.memory_malloc_count = Add3(@, fname, line_no, bytei, 1)]
    ELSE [r EXCEPT !.S.memory_free_count = Add3(@, fname, line_no, bytei, 1)]

\* os.remove(filename), reached only when no line raised; "print(e)" otherwise
helper_exit(r, file, is_malloc) ==
  IF r.raised THEN [r EXCEPT !.printed = @ + 1]
  ELSE IF is_malloc THEN [r EXCEPT !.fs.malloc = MissingFile]
  ELSE [r EXCEPT !.fs.free = MissingFile]

\* the try block on an existing file, then the count
drain(r, file, fname, line_no, bytei, is_malloc) ==
  bump_count(
    helper_exit(ReadLines(r, file.lines, fname, line_no, bytei, is_malloc),
                file, is_malloc),
    file, fname, line_no, bytei, is_malloc)

\* the rest of alloc_handler_helper once the tables are looked up: open()
\* raises FileNotFoundError for a missing file, which is passed over
helper_body(r, file, fname, line_no, bytei, is_malloc) ==
  IF ~file.exists THEN r
  ELSE drain(r, file, fname, line_no, bytei, is_malloc)

\* alloc_handler_helper(fname, line_no, bytei, is_malloc) on r: the store S,
\* the files fs, and what the handler has done so far
alloc_handler_helper(r, fname, line_no, bytei, is_malloc) ==
  helper_body(helper_entry(r, fname, line_no, is_malloc),
              IF is_malloc THEN r.fs.malloc ELSE r.fs.free,
              fname, line_no, bytei, is_malloc)

\* bytei_map were the offset not recorded
add_bytei_skipped(bm, fname, line_no, bytei) == bm

\* if bytei not in bytei_map[fname][line_no]: bytei_map[fname][line_no].add(bytei)
add_bytei(bm, fname, line_no, bytei) ==
  [Touch2(bm, fname, line_no, {}) EXCEPT ![fname][line_no] = @ \cup {bytei}]

\* allocation_handler past the should_trace test
allocation_body(r, frame) ==
  alloc_handler_helper(
    alloc_handler_helper(
      [r EXCEPT !.S.bytei_map = add_bytei(@, frame.file, frame.line, frame.lasti),
                !.drained = TRUE],
      frame.file, frame.line, frame.lasti, TRUE),
    frame.file, frame.line, frame.lasti, FALSE)

\* allocation_handler were the frame's file not tested
allocation_traced_always(r, traced, frame) == allocation_body(r, frame)

\* allocation_handler, given what should_trace(fname) returned
allocation_traced(r, traced, frame) ==
  IF traced = "IndexError" THEN [r EXCEPT !.exc = "IndexError"]
  ELSE IF traced = "False" THEN r
  ELSE allocation_body(r, frame)

\* allocation_handler(frame) on the store S and the files, high being the
\* largest current_footprint so far; exc is the exception that leaves it
allocation_handler(S, files, high, frame) ==
  allocation_traced(
    [S |-> S, fs |-> files, high |-> high, printed |-> 0, folded |-> 0,
     raised |-> FALSE, exc |-> "none", drained |-> FALSE],
    should_trace(frame.file, files.cwd, S.program_path), frame)

\* ------------------------------------------------------------- reservoir
EmptyReservoir(size) == [max_samples |-> size, total_samples |-> 0, sample_array |-> <<>>]

\* reservoir.add(value); p is the random draw made once the reservoir is full
reservoir_add(r, value, p) ==
  IF r.total_samples + 1 <= r.max_samples
  THEN [r EXCEPT !.total_samples = @ + 1, !.sample_array = Append(@, value)]
  ELSE IF p < r.max_samples
    THEN [r EXCEPT !.total_samples = @ + 1, !.sample_array[p + 1] = value]
    ELSE [r EXCEPT !.total_samples = @ + 1]

RECURSIVE reservoir_add_n(_, _, _, _)
\* for i in range(0, n): reservoir.add(value)
reservoir_add_n(r, value, p, n) ==
  IF n <= 0 THEN r ELSE reservoir_add_n(reservoir_add(r, value, p), value, p, n - 1)

\* ------------------------------------------------------- signals on / off
\* enable_signals(): the three handlers installed, the timer armed
enable_signals(sg) ==
  [sg EXCEPT !.timer_on = TRUE, !.malloc_signal = "handler", !.free_signal = "handler"]

\* disable_signals(): the timer disarmed, both allocation signals ignored
\* (a signal that is ignored is discarded, pending or not)
disable_signals(sg) ==
  [sg EXCEPT !.timer_on = FALSE, !.malloc_signal = "SIG_IGN",
             !.free_signal = "SIG_IGN", !.pending = {}]

\* the part of the state start() and stop() work on
Ctx(S, files, sg, clk) == [S |-> S, fs |-> files, sig |-> sg, clock |-> clk]

\* start(): chdir(program_path); enable_signals(); elapsed_time = gettime()
start(c) ==
  [c EXCEPT !.fs.cwd = c.S.program_path,
            !.sig = enable_signals(@),
            !.S.last_signal_time = c.clock,
            !.S.elapsed_time = c.clock]

\* stop(): disable_signals(); elapsed_time = gettime() - elapsed_time; chdir(original_path)
stop(c) ==
  [c EXCEPT !.sig = disable_signals(@),
            !.S.elapsed_time = c.clock - @,
            !.fs.cwd = OriginalPath]

\* -------------------------------------------------------------- sparkline
\* len(bar): the bars are told apart by their index in bar, 0 the lowest
barcount == 8

Abs(a) == IF a < 0 THEN 0 - a ELSE a

\* int(a / b): the quotient cut towards zero
TruncDiv(a, b) ==
  IF (a < 0) = (b < 0) THEN Abs(a) \div Abs(b) ELSE 0 - (Abs(a) \div Abs(b))

RECURSIVE SeqMin(_)
\* min(numbers), numbers not empty
SeqMin(numbers) ==
  IF Len(numbers) = 1 THEN Head(numbers)
  ELSE IF Head(numbers) <= SeqMin(Tail(numbers)) THEN Head(numbers)
  ELSE SeqMin(Tail(numbers))

RECURSIVE SeqMax(_)
\* max(numbers), numbers not empty
SeqMax(numbers) ==
  IF Len(numbers) = 1 THEN Head(numbers)
  ELSE IF Head(numbers) >= SeqMax(Tail(numbers)) THEN Head(numbers)
  ELSE SeqMax(Tail(numbers))

\* extent = mx - mn; if extent == 0: extent = 1
extent_of(mn, mx) == IF mx - mn = 0 THEN 1 ELSE mx - mn

\* min([barcount - 1, int((n - mn) / extent * barcount)])
bar_index(n, mn, extent) ==
  IF TruncDiv((n - mn) * barcount, extent) < barcount - 1
  THEN TruncDiv((n - mn) * barcount, extent)
  ELSE barcount - 1

\* Scalene.bar[i]: an index below zero counts from the end, one outside
\* -barcount .. barcount-1 raises IndexError (told by the value barcount)
bar_at(i) ==
  IF i >= 0 /\ i < barcount THEN i
  ELSE IF i < 0 /\ i >= 0 - barcount THEN i + barcount
  ELSE barcount

\* the bars of the numbers, one after the other
bars(numbers, mn, extent) ==
  [k \in 1..Len(numbers) |-> bar_at(bar_index(numbers[k], mn, extent))]

\* the join of the bars, or the IndexError one of them raised
joined(mn, mx, chars) ==
  IF \E k \in 1..Len(chars) : chars[k] = barcount
  THEN [exc |-> "IndexError", mn |-> mn, mx |-> mx, sparkline |-> <<>>]
  ELSE [exc |-> "none", mn |-> mn, mx |-> mx, sparkline |-> chars]

\* sparkline past the choice of mn and mx
sparkline_between(numbers, mn, mx) ==
  joined(mn, mx, bars(numbers, mn, extent_of(mn, mx)))

\* sparkline(numbers, fixed_min, fixed_max); min() and max() raise ValueError
\* on an empty list
sparkline(numbers, fixed_min, fixed_max) ==
  IF numbers = <<>> /\ (fixed_min = -1 \/ fixed_max = -1)
  THEN [exc |-> "ValueError", mn |-> fixed_min, mx |-> fixed_max, sparkline |-> <<>>]
  ELSE sparkline_between(numbers,
                         IF fixed_min = -1 THEN SeqMin(numbers) ELSE fixed_min,
                         IF fixed_max = -1 THEN SeqMax(numbers) ELSE fixed_max)

\* -------------------------------------------------------- output_profiles
\* [t, i] <= [u, j] for two-element lists
PairLeq(a, b) == a[1] < b[1] \/ (a[1] = b[1] /\ a[2] <= b[2])

RECURSIVE Insert(_, _)
Insert(sorted, x) ==
  IF sorted = <<>> THEN <<x>>
  ELSE IF PairLeq(x, Head(sorted)) THEN <<x>> \o sorted
  ELSE <<Head(sorted)>> \o Insert(Tail(sorted), x)

RECURSIVE SortPairs(_)
SortPairs(arr) ==
  IF arr = <<>> THEN <<>> ELSE Insert(SortPairs(SubSeq(arr, 1, Len(arr) - 1)), arr[Len(arr)])

\* generate_sparkline(arr, ...): arr.sort() sorts the reservoir's own list
generate_sparkline(r) == [r EXCEPT !.sample_array = SortPairs(@)]

\* the keys of the four tables the report walks
all_instrumented_files(S) ==
  DOMAIN S.cpu_samples_python \cup DOMAIN S.cpu_samples_c
    \cup DOMAIN S.memory_free_samples \cup DOMAIN S.memory_malloc_samples

\* sorted(all_instrumented_files) lists the names in this order
SortedFiles == <<EmptyFile, ProgFile, LibFile>>

\* open(fname, 'r') succeeds: a name that is the path of a source file
Openable(fname) == fname \in {ProgFile, LibFile}

RECURSIVE TouchOffsets(_, _, _, _)
\* d[fname][line_no][index] read for every index of the set
TouchOffsets(d, fname, line_no, indexes) ==
  IF indexes = {} THEN Touch2(d, fname, line_no, EmptyFn)
  ELSE LET i == CHOOSE x \in indexes : TRUE
       IN  TouchOffsets(Touch3(d, fname, line_no, i, 0), fname, line_no, indexes \ {i})

\* the loop "for index in bytei_map[fname][line_no]" of the report: each of
\* the four allocation tables is read at every index
report_offsets(S, fname, line_no, idx) ==
  IF idx = {} THEN S
  ELSE [S EXCEPT
         !.memory_malloc_samples = TouchOffsets(@, fname, line_no, idx),
         !.memory_malloc_count = TouchOffsets(@, fname, line_no, idx),
         !.memory_free_samples = TouchOffsets(@, fname, line_no, idx),
         !.memory_free_count = TouchOffsets(@, fname, line_no, idx)]

\* the sparkline of the line's reservoir, rendered when memory was sampled
report_spark(S, fname, line_no, did_sample_memory) ==
  IF did_sample_memory
  THEN [S EXCEPT !.per_line_footprint_samples =
          [Touch2(@, fname, line_no, EmptyReservoir(LineCapacity))
             EXCEPT ![fname][line_no] = generate_sparkline(@)]]
  ELSE S

\* the tables read first for a line
report_cpu(S, fname, line_no) ==
  [S EXCEPT !.cpu_samples_c = Touch2(@, fname, line_no, 0),
            !.cpu_samples_python = Touch2(@, fname, line_no, 0),
            !.bytei_map = Touch2(@, fname, line_no, {})]

\* the line's reservoir is read when memory was sampled
line_reservoir(S, fname, line_no, did_sample_memory) ==
  IF did_sample_memory
  THEN [S EXCEPT !.per_line_footprint_samples =
          Touch2(@, fname, line_no, EmptyReservoir(LineCapacity))]
  ELSE S

\* the reads of one line of the source file: every table is read at
\* (fname, line_no), and a read of a defaultdict inserts the key
line_read(S, fname, line_no, did_sample_memory) ==
  line_reservoir(
    report_offsets(report_cpu(S, fname, line_no), fname, line_no,
                   Touch2(S.bytei_map, fname, line_no, {})[fname][line_no]),
    fname, line_no, did_sample_memory)

\* one line of the source file: its reads, and its reservoir sorted by
\* generate_sparkline
report_line(S, fname, line_no, did_sample_memory) ==
  report_spark(line_read(S, fname, line_no, did_sample_memory),
               fname, line_no, did_sample_memory)

\* samples = [i if i > 0 else 0 for [t, i] in arr]
positive_samples(arr) ==
  [k \in 1..Len(arr) |-> IF arr[k][2] > 0 THEN arr[k][2] ELSE 0]

\* the list as it was handed to generate_sparkline
rendered_unsorted(arr) == arr

\* the list generate_sparkline renders: the one arr.sort() leaves
rendered(arr) == SortPairs(arr)

\* the sparkline string printed for a reservoir: "" while it holds nothing,
\* else that of generate_sparkline(reservoir.get(), 0, Scalene.max_footprint)
spark_text(res, maximum) ==
  IF Len(res.sample_array) = 0 THEN <<>>
  ELSE sparkline(positive_samples(rendered(res.sample_array)), 0, maximum).sparkline

\* n * 100 / total_cpu_samples as '%6.2f' prints it (in hundredths), 0 when
\* the total is 0
percent(n, total) == IF total = 0 THEN 0 ELSE (n * 10000) \div total

\* averages are kept in GrowthScale-ths of a MB
GrowthScale == Factorial(MaxEvents)

\* the sum over the indexes of samples / count, for the counts above 0
average_mb(samples, count, idx) ==
  SumSet(idx, [i \in idx |-> IF count[i] > 0
                              THEN (samples[i] * GrowthScale) \div count[i] ELSE 0])

\* "if (n_growth_mb < 0) and (n_growth_mb > -1): n_growth_mb = 0"
no_minus_zero(growth) == IF growth < 0 /\ growth > -GrowthScale THEN 0 ELSE growth

\* n_growth_mb_str: "" when both n_growth_mb and n_usage_mb are 0
growth_text(growth, n_malloc_mb, total_malloc) ==
  IF growth = 0 /\ (total_malloc = 0 \/ n_malloc_mb = 0) THEN <<>> ELSE <<growth>>

\* n_cpu_percent_*_str: "" for 0
percent_text(n, total) == IF percent(n, total) = 0 THEN <<>> ELSE <<percent(n, total)>>

\* the growth column of a line with the known offsets idx
growth_column(S, fname, line_no, idx) ==
  IF idx = {} THEN growth_text(0, 0, S.total_memory_malloc_samples)
  ELSE growth_text(
         no_minus_zero(
           average_mb(S.memory_malloc_samples[fname][line_no],
                      S.memory_malloc_count[fname][line_no], idx)
             - average_mb(S.memory_free_samples[fname][line_no],
                          S.memory_free_count[fname][line_no], idx)),
         SumSet(idx, [i \in idx |-> S.memory_malloc_samples[fname][line_no][i]]),
         S.total_memory_malloc_samples)

\* what is printed for one line, S being the store the line's reads left
line_text(S, fname, line_no, did_sample_memory) ==
  [line |-> line_no,
   python |-> percent_text(S.cpu_samples_python[fname][line_no], S.total_cpu_samples),
   c |-> percent_text(IF S.cpu_samples_c[fname][line_no] < 0 THEN 0
                      ELSE S.cpu_samples_c[fname][line_no], S.total_cpu_samples),
   growth |-> IF did_sample_memory
              THEN growth_column(S, fname, line_no, S.bytei_map[fname][line_no])
              ELSE <<>>,
   spark |-> IF did_sample_memory
             THEN spark_text(S.per_line_footprint_samples[fname][line_no],
                             S.max_footprint)
             ELSE <<>>]

\* the line is printed once its values are read (S1), its reservoir being
\* sorted where it is kept
line_printed(r, S1, fname, line_no, did_sample_memory) ==
  [r EXCEPT !.S = report_spark(S1, fname, line_no, did_sample_memory),
            !.out = Append(@, line_text(S1, fname, line_no, did_sample_memory))]

RECURSIVE report_lines(_, _, _, _)
\* for line_no, line in enumerate(source_file, 1)
report_lines(r, fname, line_no, did_sample_memory) ==
  IF line_no > MaxLine THEN r
  ELSE report_lines(
         line_printed(r, line_read(r.S, fname, line_no, did_sample_memory),
                      fname, line_no, did_sample_memory),
         fname, line_no + 1, did_sample_memory)

\* what is printed at the head of a file: its name, its percentage of the
\* CPU time and elapsed_time
header_text(S, fname) ==
  [file |-> fname,
   percent |-> percent(SumSet(DOMAIN S.cpu_samples_c[fname], S.cpu_samples_c[fname])
                         + SumSet(DOMAIN S.cpu_samples_python[fname],
                                  S.cpu_samples_python[fname]),
                       S.total_cpu_samples),
   elapsed |-> S.elapsed_time]

\* the header is printed once the sums are read
header_printed(r, fname) ==
  [r EXCEPT !.out = Append(@, header_text(r.S, fname)),
            !.headers = Append(@, fname)]

\* the header of a file: sum(cpu_samples_c[fname].values()) + sum(cpu_samples_python[fname].values())
report_header(r, fname) ==
  header_printed(
    [r EXCEPT !.S.cpu_samples_c = Touch(@, fname, EmptyFn),
              !.S.cpu_samples_python = Touch(@, fname, EmptyFn)],
    fname)

RECURSIVE report_files(_, _, _, _)
\* for fname in sorted(all_instrumented_files): the header, then the lines;
\* open(fname) raises for a name that is no file
report_files(r, files, i, did_sample_memory) ==
  IF i > Len(SortedFiles) THEN r
  ELSE IF SortedFiles[i] \notin files
    THEN report_files(r, files, i + 1, did_sample_memory)
  ELSE IF ~Openable(SortedFiles[i])
    THEN [report_header(r, SortedFiles[i]) EXCEPT !.result = "FileNotFoundError"]
  ELSE report_files(
         report_lines(report_header(r, SortedFiles[i]), SortedFiles[i], 1,
                      did_sample_memory),
         files, i + 1, did_sample_memory)

\* the test output_profiles() starts with
nothing_to_output(S) ==
  /\ S.total_cpu_samples = 0
  /\ S.total_memory_malloc_samples = 0
  /\ S.total_memory_free_samples = 0

\* the report once something is to be output
report_body(S, did_sample_memory) ==
  report_files(
    [S |-> IF did_sample_memory
           THEN [S EXCEPT !.memory_footprint_samples = generate_sparkline(@)]
           ELSE S,
     result |-> "True", opened |-> TRUE, headers |-> <<>>,
     elapsed_time |-> S.elapsed_time,
     out |-> IF did_sample_memory /\ Len(S.memory_footprint_samples.sample_array) > 0
             THEN <<[memory |-> spark_text(S.memory_footprint_samples, S.max_footprint),
                     max |-> S.max_footprint]>>
             ELSE <<>>],
    all_instrumented_files(S), 1, did_sample_memory)

\* output_profiles(): result "False", "True", or the exception of open();
\* opened tells whether the output file was opened, headers lists the files
\* whose header was printed, out what was printed
output_profiles(S) ==
  IF nothing_to_output(S)
  THEN [S |-> S, result |-> "False", opened |-> FALSE, headers |-> <<>>,
        elapsed_time |-> S.elapsed_time, out |-> <<>>]
  ELSE report_body(S, S.total_memory_free_samples + S.total_memory_malloc_samples > 0)

\* ----------------------------------------------------- cpu_signal_handler
\* A frame: its co_filename, f_lineno, f_lasti, whether the instruction at
\* f_lasti is a call (is_call_function), the co_filename of f_back (NoFrame
\* when f_back is None), and whether it is the frame the signal interrupted.
Frame(file, line, lasti, call, back, main) ==
  [none |-> FALSE, file |-> file, line |-> line, lasti |-> lasti,
   call |-> call, back |-> back, main |-> main]

\* sys._current_frames().get(t.ident, None) of a thread that has no frame
NoneEntry ==
  [none |-> TRUE, file |-> NoFrame, line |-> 1, lasti |-> 0,
   call |-> FALSE, back |-> NoFrame, main |-> FALSE]

\* the frame of the handler itself: what sys._current_frames() holds for the
\* main thread while the handler runs
HandlerFrame == Frame(ScaleneFile, 1, 0, FALSE, ProgFile, FALSE)

\* c_time without the clamp
c_time_unclamped(elapsed, python_time) == elapsed - python_time

\* c_time = elapsed - python_time; if c_time < 0: c_time = 0
c_time_of(elapsed, python_time) ==
  IF elapsed - python_time < 0 THEN 0 ELSE elapsed - python_time

\* the whole of t, not divided by len(new_frames)
share_undivided(t, n) == t * Scale

\* t / len(new_frames), in 1/Scale of a clock unit
share(t, n) == (t * Scale) \div n

\* int(round(a / b, 0)) for b > 0: Python rounds a half to the even neighbour
round_div(a, b) ==
  LET q == a \div b
      r == a % b
  IN  IF 2 * r < b THEN q
      ELSE IF 2 * r > b THEN q + 1
      ELSE IF q % 2 = 0 THEN q ELSE q + 1

RECURSIVE filter_frames(_, _, _, _)
\* the loop that builds new_frames; exc is the exception that leaves it
filter_frames(frames, kept, cwd, program_path) ==
  IF frames = <<>> THEN [exc |-> "none", new_frames |-> kept]
  ELSE LET frame == Head(frames)
       IN  IF frame.none THEN filter_frames(Tail(frames), kept, cwd, program_path)
           ELSE IF Len(frame.file) = 0 /\ frame.back = NoFrame
             THEN [exc |-> "AttributeError", new_frames |-> kept]
           ELSE LET fname == IF Len(frame.file) = 0 THEN frame.back ELSE frame.file
                    traced == should_trace(fname, cwd, program_path)
                IN  IF traced = "IndexError"
                    THEN [exc |-> "IndexError", new_frames |-> kept]
                    ELSE filter_frames(Tail(frames),
                           IF traced = "True" THEN Append(kept, frame) ELSE kept,
                           cwd, program_path)

\* the tables after the reads of one index, and the growth they give
growth_read(S, fname, line_no, i) ==
  [S EXCEPT !.memory_malloc_samples = Touch3(@, fname, line_no, i, 0),
            !.memory_free_samples = Touch3(@, fname, line_no, i, 0)]

growth_of(S, fname, line_no, i) ==
  S.memory_malloc_samples[fname][line_no][i] - S.memory_free_samples[fname][line_no][i]

\* per_line_footprint_samples[fname][line_no].add([total_cpu_samples, growth])
growth_offer(S, fname, line_no, i, p) ==
  [S EXCEPT !.per_line_footprint_samples =
     [Touch2(@, fname, line_no, EmptyReservoir(LineCapacity))
        EXCEPT ![fname][line_no] =
          reservoir_add(@, <<S.total_cpu_samples, growth_of(S, fname, line_no, i)>>, p)]]

Least(indexes) == CHOOSE x \in indexes : \A y \in indexes : x <= y

RECURSIVE offer_growth(_, _, _, _, _)
\* for index in bytei_map[fname][lineno]: offer [total_cpu_samples, growth]
offer_growth(S, fname, line_no, indexes, p) ==
  IF indexes = {} THEN S
  ELSE offer_growth(
         growth_offer(growth_read(S, fname, line_no, Least(indexes)),
                      fname, line_no, Least(indexes), p),
         fname, line_no, indexes \ {Least(indexes)}, p)

\* the time added for one frame of new_frames
attribute_time(S, frame, n, python_time, c_time) ==
  IF frame.main
  THEN [S EXCEPT
         !.cpu_samples_python = Add2(@, frame.file, frame.line, share(python_time, n)),
         !.cpu_samples_c = Add2(@, frame.file, frame.line, share(c_time, n))]
  ELSE IF frame.call
    THEN [S EXCEPT
         !.cpu_samples_c = Add2(@, frame.file, frame.line,
                                share(python_time + c_time, n))]
    ELSE [S EXCEPT
         !.cpu_samples_python = Add2(@, frame.file, frame.line,
                                     share(python_time + c_time, n))]

\* the footprint offers for one frame, S being the store after attribute_time
attribute_growth(S, frame, p) ==
  offer_growth([S EXCEPT !.bytei_map = Touch2(@, frame.file, frame.line, {})],
               frame.file, frame.line,
               Touch2(S.bytei_map, frame.file, frame.line, {})[frame.file][frame.line],
               p)

\* the body of "for frame in new_frames"
attribute_frame(S, frame, n, python_time, c_time, p) ==
  attribute_growth(attribute_time(S, frame, n, python_time, c_time), frame, p)

RECURSIVE attribute_frames(_, _, _, _, _, _)
attribute_frames(S, new_frames, n, python_time, c_time, p) ==
  IF new_frames = <<>> THEN S
  ELSE attribute_frames(attribute_frame(S, Head(new_frames), n, python_time, c_time, p),
                        Tail(new_frames), n, python_time, c_time, p)

\* a + b where either may be float("inf")
AddInf(a, b) == IF a = Inf \/ b = Inf THEN Inf ELSE a + b

\* the end of the handler were the total and the reservoir left as they are
tick_totals_kept(S, now, elapsed, total_time, end, p) ==
  [S EXCEPT !.last_signal_time = end]

\* the end of the handler: total_cpu_samples, the global reservoir, last_signal_time
tick_totals(S, now, elapsed, total_time, end, p) ==
  [S EXCEPT
     !.total_cpu_samples = @ + total_time * Scale,
     !.memory_footprint_samples =
        reservoir_add_n(@, <<now, S.current_footprint>>, p,
                        round_div(elapsed, S.last_signal_interval)),
     !.last_signal_time = end]

\* the handler from "elapsed = now - last_signal_time" on, new_frames given
tick_attribute(c, now, new_frames, elapsed, python_time, c_time, handler_cost, p) ==
  [c EXCEPT
     !.S = tick_totals(
             attribute_frames(@, new_frames, Len(new_frames), python_time, c_time, p),
             now, elapsed, python_time + c_time, c.clock + handler_cost, p),
     !.clock = @ + handler_cost,
     !.retained = Len(new_frames),
     !.total_time = python_time + c_time,
     !.elapsed = elapsed]

\* the handler past the loop that builds new_frames
tick_frames(c, now, ff, elapsed, python_time, handler_cost, p) ==
  IF ff.exc # "none" THEN [c EXCEPT !.exc = ff.exc]
  ELSE tick_attribute(c, now, ff.new_frames, elapsed, python_time,
                      c_time_of(elapsed, python_time), handler_cost, p)

\* the handler past the flush
tick_body(c, now, this_frame, others, handler_cost, p) ==
  IF c.exc # "none" THEN c
  ELSE tick_frames(c, now,
                   filter_frames(<<this_frame, HandlerFrame>> \o others, <<>>,
                                 c.fs.cwd, c.S.program_path),
                   now - c.S.last_signal_time, c.S.last_signal_interval,
                   handler_cost, p)

\* Scalene.output_profiles(); Scalene.start(), the report taking flush_cost;
\* an exception of the report leaves the handler before start()
flush_report(c, rep, flush_cost) ==
  IF rep.result \in {"True", "False"}
  THEN start([c EXCEPT !.S = rep.S, !.clock = @ + flush_cost, !.flushed = TRUE])
  ELSE [c EXCEPT !.S = rep.S, !.exc = rep.result, !.flushed = TRUE]

\* Scalene.output_profiles() on the stopped profiler, then Scalene.start()
flush_stopped(c, flush_cost) == flush_report(c, output_profiles(c.S), flush_cost)

\* next_output_time += output_profile_interval; stop(); then the report
flush(c, flush_cost) ==
  flush_stopped(
    stop([c EXCEPT !.S.next_output_time = AddInf(@, c.S.output_profile_interval)]),
    flush_cost)

\* the flush were it made on every tick
tick_flush_always(c, flush_cost) == flush(c, flush_cost)

\* if now >= next_output_time: ...
tick_flush(c, flush_cost) ==
  IF c.clock >= c.S.next_output_time THEN flush(c, flush_cost) ELSE c

\* cpu_signal_handler(_, this_frame) on the context c; others are the frames
\* sys._current_frames() holds for the other threads, flush_cost and
\* handler_cost the process time the report and the handler take, p the
\* reservoirs' random draw.  exc is the exception that leaves the handler.
cpu_signal_handler(c, this_frame, others, flush_cost, handler_cost, p) ==
  tick_body(
    tick_flush(c @@ [exc |-> "none", flushed |-> FALSE, retained |-> 0,
                     total_time |-> 0, elapsed |-> 0, now |-> c.clock],
               flush_cost),
    c.clock, this_frame, others, handler_cost, p)

\* ---------------------------------------------------------------- state
ScaleneInit(interval, wallclock) ==
  [cpu_samples_python |-> EmptyFn,
   cpu_samples_c |-> EmptyFn,
   memory_malloc_samples |-> EmptyFn,
   memory_malloc_count |-> EmptyFn,
   memory_free_samples |-> EmptyFn,
   memory_free_count |-> EmptyFn,
   total_cpu_samples |-> 0,
   total_memory_malloc_samples |-> 0,
   total_memory_free_samples |-> 0,
   current_footprint |-> 0,
   max_footprint |-> 0,
   last_signal_interval |-> Interval,
   last_signal_time |-> 0,
   memory_footprint_samples |-> EmptyReservoir(GlobalCapacity),
   per_line_footprint_samples |-> EmptyFn,
   program_path |-> ProgramPath,
   output_profile_interval |-> interval,
   next_output_time |-> AddInf(0, interval),
   elapsed_time |-> 0,
   bytei_map |-> EmptyFn,
   cpu_timer_signal |-> IF wallclock THEN "ITIMER_REAL" ELSE "ITIMER_VIRTUAL"]

\* no join is under way
JoinIdle ==
  [pc |-> "idle", timeout |-> -1, has_timeout |-> FALSE,
   start_time |-> 0, called_at |-> 0, alive |-> TRUE]

HistInit == [peak |-> 0, unattributed |-> 0, events |-> 0, escaped |-> {}, flushes |-> 0,
             printed |-> 0, negative |-> FALSE]

\* no operation observed yet
NoProbe == [op |-> "none"]

\* the state when main() has parsed its arguments and built the profiler,
\* before profiler.start(), but for what is observed: --profile-interval is
\* one of intervals, --wallclock one of wallclocks
InitOver(intervals, wallclocks) ==
  /\ \E interval \in intervals, wallclock \in wallclocks :
       Scalene = ScaleneInit(interval, wallclock)
  /\ fs = [malloc |-> MissingFile, free |-> MissingFile, cwd |-> ProgramPath]
  /\ sig = [timer_on |-> FALSE, malloc_signal |-> "SIG_DFL", free_signal |-> "SIG_DFL",
            pending |-> {}]
  /\ clock = 0
  /\ wall = 0
  /\ driver = [pc |-> "start", end |-> "none", status |-> 0, exit_status |-> -1,
               reports |-> 0, diagnostics |-> 0, messages |-> 0, opened |-> FALSE]
  /\ join = JoinIdle
  /\ hist = HistInit
  /\ stack = <<>>

\* no interval or a long one, the timer on process time
InitStore == InitOver({Inf, ProfileInterval}, {FALSE})

Init == InitStore /\ probe = NoProbe

\* no interval or a long one, the timer on process time or on the wall clock
InitClock == InitOver({Inf, ProfileInterval}, BOOLEAN) /\ probe = NoProbe

\* no interval or one short enough for several flushes
InitFlush == InitOver({Inf, ShortInterval}, {FALSE}) /\ probe = NoProbe

\* ---------------------------------------------------------------- inputs
SeqsUpTo(S, n) == UNION { [1..k -> S] : k \in 0..n }

\* the frame a CPU tick interrupts: a line of the program, library code, code
\* compiled with an empty file name called from the program, and the same
\* with no caller
MainFrames ==
  { Frame(ProgFile, 1, 0, FALSE, ProgFile, TRUE),
    Frame(LibFile, 1, 0, FALSE, ProgFile, TRUE),
    Frame(EmptyFile, 1, 0, FALSE, ProgFile, TRUE),
    Frame(EmptyFile, 1, 0, FALSE, NoFrame, TRUE) }

\* the top frame of another thread
ThreadFrames ==
  { NoneEntry,
    Frame(ProgFile, 1, 0, FALSE, ProgFile, FALSE),
    Frame(ProgFile, MaxLine, 0, TRUE, ProgFile, FALSE) }

\* the frame an allocation signal interrupts
AllocFrames ==
  { Frame(ProgFile, l, o, FALSE, ProgFile, TRUE) : l \in Lines, o \in Offsets }
    \cup { Frame(LibFile, 1, 0, FALSE, ProgFile, TRUE),
           Frame(EmptyFile, 1, 0, FALSE, ProgFile, TRUE) }

Kinds == {"malloc", "free"}
Draws == {0}
Ends == {"return", "exception", "exit"}

\* The inputs a specification draws from.
\* All operations, the allocation side in full: every line value and frame.
MemInputs ==
  [ds |-> {Interval}, mains |-> {Frame(ProgFile, 1, 0, FALSE, ProgFile, TRUE)},
   others |-> {<<>>}, costs |-> {0},
   kinds |-> Kinds, lines |-> LineValues, aframes |-> AllocFrames,
   ends |-> {"return"}, statuses |-> {0}]

\* All operations, the CPU tick in full: every elapsed time and set of frames.
CpuInputs ==
  [ds |-> 0..MaxClock, mains |-> MainFrames,
   others |-> SeqsUpTo(ThreadFrames, MaxThreads), costs |-> 0..1,
   kinds |-> {"malloc"}, lines |-> {NumberLine(BytesPerMB)},
   aframes |-> {Frame(ProgFile, 1, 0, FALSE, ProgFile, TRUE)},
   ends |-> {"return"}, statuses |-> {0}]

\* All operations, the driver in full: every way the target ends.
DriverInputs ==
  [ds |-> {Interval},
   mains |-> { Frame(ProgFile, 1, 0, FALSE, ProgFile, TRUE),
               Frame(EmptyFile, 1, 0, FALSE, ProgFile, TRUE),
               Frame(EmptyFile, 1, 0, FALSE, NoFrame, TRUE) },
   others |-> {<<>>}, costs |-> {0},
   kinds |-> Kinds, lines |-> {NumberLine(BytesPerMB), GarbageLine},
   aframes |-> { Frame(ProgFile, 1, 0, FALSE, ProgFile, TRUE),
                 Frame(EmptyFile, 1, 0, FALSE, ProgFile, TRUE) },
   ends |-> Ends, statuses |-> 0..MaxStatus]

\* The report in full: two offsets of one line with different growth, and a
\* tick in code whose file cannot be opened.
ReportInputs ==
  [ds |-> {Interval},
   mains |-> { Frame(ProgFile, 1, 0, FALSE, ProgFile, TRUE),
               Frame(EmptyFile, 1, 0, FALSE, ProgFile, TRUE) },
   others |-> {<<>>}, costs |-> {0},
   kinds |-> {"malloc"},
   lines |-> {NumberLine(BytesPerMB), NumberLine(2 * BytesPerMB)},
   aframes |-> { Frame(ProgFile, 1, o, FALSE, ProgFile, TRUE) : o \in Offsets },
   ends |-> {"return"}, statuses |-> {0}]

\* The tick observed: a line of the program, library code and code with an
\* empty file name under the timer, with and without another thread, the
\* handler taking process time or none.
TickInputs ==
  [ds |-> {0, Interval, MaxClock},
   mains |-> { Frame(ProgFile, 1, 0, FALSE, ProgFile, TRUE),
               Frame(LibFile, 1, 0, FALSE, ProgFile, TRUE),
               Frame(EmptyFile, 1, 0, FALSE, ProgFile, TRUE) },
   others |-> {<<>>, <<NoneEntry>>}, costs |-> 0..1,
   kinds |-> {"malloc"}, lines |-> {NumberLine(BytesPerMB)},
   aframes |-> {Frame(ProgFile, 1, 0, FALSE, ProgFile, TRUE)},
   ends |-> {"return"}, statuses |-> {0}]

\* The allocation handlers step by step: both kinds, well-formed and
\* malformed lines, one site of the program.
NestInputs ==
  [ds |-> {Interval}, mains |-> {Frame(ProgFile, 1, 0, FALSE, ProgFile, TRUE)},
   others |-> {<<>>}, costs |-> {0},
   kinds |-> Kinds, lines |-> {NumberLine(BytesPerMB), GarbageLine},
   aframes |-> {Frame(ProgFile, 1, 0, FALSE, ProgFile, TRUE)},
   ends |-> {"return"}, statuses |-> {0}]

\* The allocation handlers with the allocator at work: lines float()
\* accepts, both kinds, one site of the program.
RaceInputs ==
  [ds |-> {Interval}, mains |-> {Frame(ProgFile, 1, 0, FALSE, ProgFile, TRUE)},
   others |-> {<<>>}, costs |-> {0},
   kinds |-> Kinds, lines |-> {NumberLine(BytesPerMB)},
   aframes |-> {Frame(ProgFile, 1, 0, FALSE, ProgFile, TRUE)},
   ends |-> {"return"}, statuses |-> {0}]

\* The allocation handler observed: a site of the program, library code and
\* code with an empty file name, well-formed and malformed lines.
AllocInputs ==
  [ds |-> {Interval}, mains |-> {Frame(ProgFile, 1, 0, FALSE, ProgFile, TRUE)},
   others |-> {<<>>}, costs |-> {0},
   kinds |-> Kinds, lines |-> {NumberLine(BytesPerMB), GarbageLine},
   aframes |-> { Frame(ProgFile, 1, 0, FALSE, ProgFile, TRUE),
                 Frame(ProgFile, 1, 1, FALSE, ProgFile, TRUE),
                 Frame(ProgFile, MaxLine, 0, FALSE, ProgFile, TRUE),
                 Frame(LibFile, 1, 0, FALSE, ProgFile, TRUE),
                 Frame(EmptyFile, 1, 0, FALSE, ProgFile, TRUE) },
   ends |-> {"return"}, statuses |-> {0}]

\* --------------------------------------------------------------- actions
\* the store, the files and the signals become those of the context c
Becomes(c) ==
  /\ Scalene' = c.S
  /\ fs' = c.fs
  /\ sig' = c.sig

\* profiler.start() in main
Start ==
  /\ driver.pc = "start"
  /\ Becomes(start(Ctx(Scalene, fs, sig, clock)))
  /\ driver' = [driver EXCEPT !.pc = "running"]
  /\ UNCHANGED <<clock, wall, join, hist, stack, probe>>

\* the allocator opens a bridge file to append to it
AllocatorOpen(kind) ==
  /\ driver.pc = "running"
  /\ ~fs[kind].exists
  /\ fs' = [fs EXCEPT ![kind] = [exists |-> TRUE, lines |-> <<>>]]
  /\ UNCHANGED <<Scalene, sig, clock, wall, driver, join, hist, stack, probe>>

\* the allocator appends a line to a bridge file and raises the kind's signal
AllocatorAppend(kind, line) ==
  /\ driver.pc = "running"
  /\ hist.events < MaxEvents
  /\ fs' = [fs EXCEPT ![kind] = [exists |-> TRUE, lines |-> Append(@.lines, line)]]
  /\ sig' = IF (IF kind = "malloc" THEN sig.malloc_signal ELSE sig.free_signal) = "handler"
            THEN [sig EXCEPT !.pending = @ \cup {kind}]
            ELSE sig
  /\ hist' = [hist EXCEPT !.events = @ + 1]
  /\ UNCHANGED <<Scalene, clock, wall, driver, join, stack, probe>>

\* the exceptions that left a handler so far
Escaped(seen, exc) == IF exc = "none" THEN seen ELSE seen \cup {exc}

\* An exception that leaves a handler is raised in the target at the point
\* the signal interrupted: the target goes on when it catches it there, and
\* otherwise ends with it, which main takes like any exception of the target.
Interrupted(exc, caught) ==
  IF exc = "none" \/ caught THEN driver
  ELSE [driver EXCEPT !.pc = "ended", !.end = "exception", !.status = 0]

Catches(exc) == IF exc = "none" THEN {FALSE} ELSE BOOLEAN

\* the state after the allocation handler returned r
AllocReturns(r) ==
  /\ Scalene' = r.S
  /\ fs' = r.fs
  /\ hist' = [hist EXCEPT !.peak = r.high, !.escaped = Escaped(@, r.exc),
                          !.printed = @ + r.printed]
  /\ \E caught \in Catches(r.exc) : driver' = Interrupted(r.exc, caught)

\* malloc_event_signal_handler / free_event_signal_handler on a pending signal
AllocSignal(kind, frame) ==
  /\ driver.pc = "running"
  /\ kind \in sig.pending
  /\ AllocReturns(allocation_handler(Scalene, fs, hist.peak, frame))
  /\ sig' = [sig EXCEPT !.pending = @ \ {kind}]
  /\ UNCHANGED <<clock, wall, join, stack, probe>>

\* the state after the tick handler returned r
TickReturns(r) ==
  /\ Becomes(r)
  /\ clock' = r.clock
  /\ hist' = [hist EXCEPT
                !.events = @ + 1,
                !.unattributed = IF r.exc = "none" /\ r.retained = 0
                                 THEN @ + r.total_time * Scale ELSE @,
                !.flushes = IF r.flushed THEN @ + 1 ELSE @,
                !.negative = @ \/ (r.exc = "none" /\ r.retained > 0 /\ r.elapsed < 0),
                !.escaped = Escaped(@, r.exc)]
  /\ \E caught \in Catches(r.exc) : driver' = Interrupted(r.exc, caught)

\* cpu_signal_handler on a timer signal, delivered when the target has run
\* for d more clock units
CpuTick(d, this_frame, others, flush_cost, handler_cost, p) ==
  /\ driver.pc = "running"
  /\ sig.timer_on
  /\ hist.events < MaxEvents
  /\ clock + d + flush_cost + handler_cost <= MaxClock
  /\ flush_cost = 0 \/ clock + d >= Scalene.next_output_time
  /\ TickReturns(cpu_signal_handler(Ctx(Scalene, fs, sig, clock + d),
                                    this_frame, others, flush_cost, handler_cost, p))
  /\ UNCHANGED <<wall, join, stack, probe>>

\* ------------------------------------------- handlers, one call at a time
\* A handler is Python code: a signal that arrives while it runs has its own
\* handler called at the next instruction, inside the one that is running.
\* stack holds the invocations of allocation_handler under way, the last one
\* running: its frame and the call of alloc_handler_helper it is to make.
Invocation(frame) == [pc |-> "malloc", frame |-> frame]

Top == stack[Len(stack)]

\* the running invocation returns
Returned == SubSeq(stack, 1, Len(stack) - 1)

\* the running invocation has made its first call of alloc_handler_helper
Advanced == [stack EXCEPT ![Len(stack)].pc = "free"]

\* malloc_event_signal_handler / free_event_signal_handler is called on a
\* pending signal, whether or not a handler is running: allocation_handler up
\* to its first call of alloc_handler_helper
AllocEnter(kind, frame) ==
  /\ driver.pc = "running"
  /\ kind \in sig.pending
  /\ Len(stack) < MaxDepth
  /\ should_trace(frame.file, fs.cwd, Scalene.program_path) # "IndexError"
  /\ sig' = [sig EXCEPT !.pending = @ \ {kind}]
  /\ IF should_trace(frame.file, fs.cwd, Scalene.program_path) = "True"
     THEN /\ Scalene' = [Scalene EXCEPT !.bytei_map =
                           add_bytei(@, frame.file, frame.line, frame.lasti)]
          /\ stack' = Append(stack, Invocation(frame))
     ELSE UNCHANGED <<Scalene, stack>>
  /\ UNCHANGED <<fs, clock, wall, driver, join, hist, probe>>

\* what is seen of a call of alloc_handler_helper: the store and the bridge
\* file it found, its arguments, and what it left
DrainSeen(frame, is_malloc, file, r, left) ==
  [op |-> "drain", before |-> Scalene, file |-> file, frame |-> frame,
   is_malloc |-> is_malloc, after |-> r.S, left |-> left,
   folded |-> r.folded, raised |-> r.raised, printed |-> r.printed, exc |-> r.exc]

\* the call of alloc_handler_helper returned r
DrainReturns(frame, is_malloc, r) ==
  /\ Scalene' = r.S
  /\ fs' = r.fs
  /\ hist' = [hist EXCEPT !.peak = r.high, !.printed = @ + r.printed]
  /\ probe' = IF is_malloc
              THEN DrainSeen(frame, is_malloc, fs.malloc, r, r.fs.malloc)
              ELSE DrainSeen(frame, is_malloc, fs.free, r, r.fs.free)

\* the running invocation calls alloc_handler_helper(fname, line_no, bytei,
\* True), or (..., False) and returns
Drain ==
  /\ driver.pc = "running"
  /\ stack # <<>>
  /\ DrainReturns(Top.frame, Top.pc = "malloc",
                  alloc_handler_helper(
                    [S |-> Scalene, fs |-> fs, high |-> hist.peak, printed |-> 0,
                     folded |-> 0, raised |-> FALSE, exc |-> "none", drained |-> TRUE],
                    Top.frame.file, Top.frame.line, Top.frame.lasti,
                    Top.pc = "malloc"))
  /\ stack' = IF Top.pc = "malloc" THEN Advanced ELSE Returned
  /\ UNCHANGED <<sig, clock, wall, driver, join>>

\* what is seen of a call of allocation_handler: the store and the files it
\* found, its frame, what should_trace gave for it, and what it left
AllocSeen(frame, r) ==
  [op |-> "alloc", before |-> Scalene, files |-> fs, frame |-> frame,
   traced |-> should_trace(frame.file, fs.cwd, Scalene.program_path),
   after |-> r.S, left |-> r.fs, folded |-> r.folded, drained |-> r.drained,
   exc |-> r.exc]

\* the allocation handler returned r, and is observed
AllocObserved(frame, r) ==
  /\ AllocReturns(r)
  /\ probe' = AllocSeen(frame, r)

\* malloc_event_signal_handler / free_event_signal_handler on a pending
\* signal, observed
ObservedAlloc(kind, frame) ==
  /\ driver.pc = "running"
  /\ kind \in sig.pending
  /\ AllocObserved(frame, allocation_handler(Scalene, fs, hist.peak, frame))
  /\ sig' = [sig EXCEPT !.pending = @ \ {kind}]
  /\ UNCHANGED <<clock, wall, join, stack>>

\* the running invocation has read its bridge file to the end: file is what
\* it read, raised whether a line made float() raise
Reading(frame, is_malloc, file, raised) ==
  [pc |-> "remove", frame |-> frame, is_malloc |-> is_malloc, file |-> file,
   raised |-> raised]

\* the invocations once the running one is done with a call of
\* alloc_handler_helper
Done(is_malloc) == IF is_malloc THEN Advanced ELSE Returned

\* the loop of alloc_handler_helper read the file to its end, leaving r
ReadReturns(frame, is_malloc, file, r) ==
  /\ Scalene' = r.S
  /\ hist' = [hist EXCEPT !.peak = r.high]
  /\ stack' = IF file.exists
              THEN [stack EXCEPT ![Len(stack)] = Reading(frame, is_malloc, file, r.raised)]
              ELSE Done(is_malloc)

\* the running invocation calls alloc_handler_helper, which opens the bridge
\* file and reads it to the end (lines 336-358); open() raises
\* FileNotFoundError for a missing file and the call is over
ReadStep ==
  /\ driver.pc = "running"
  /\ stack # <<>>
  /\ Top.pc \in {"malloc", "free"}
  /\ ReadReturns(Top.frame, Top.pc = "malloc",
                 IF Top.pc = "malloc" THEN fs.malloc ELSE fs.free,
                 IF (IF Top.pc = "malloc" THEN fs.malloc ELSE fs.free).exists
                 THEN ReadLines(
                        helper_entry(
                          [S |-> Scalene, fs |-> fs, high |-> hist.peak, printed |-> 0,
                           folded |-> 0, raised |-> FALSE, exc |-> "none",
                           drained |-> TRUE],
                          Top.frame.file, Top.frame.line, Top.pc = "malloc"),
                        (IF Top.pc = "malloc" THEN fs.malloc ELSE fs.free).lines,
                        Top.frame.file, Top.frame.line, Top.frame.lasti,
                        Top.pc = "malloc")
                 ELSE helper_entry(
                        [S |-> Scalene, fs |-> fs, high |-> hist.peak, printed |-> 0,
                         folded |-> 0, raised |-> FALSE, exc |-> "none",
                         drained |-> TRUE],
                        Top.frame.file, Top.frame.line, Top.pc = "malloc"))
  /\ UNCHANGED <<fs, sig, clock, wall, driver, join, probe>>

\* the rest of the call left r
RemoveReturns(is_malloc, r) ==
  /\ Scalene' = r.S
  /\ fs' = r.fs
  /\ hist' = [hist EXCEPT !.printed = @ + r.printed]
  /\ stack' = Done(is_malloc)

\* the rest of the call of alloc_handler_helper: os.remove(filename) (passed
\* over when the file is gone by now) and the count (lines 359-367)
RemoveStep ==
  /\ driver.pc = "running"
  /\ stack # <<>>
  /\ Top.pc = "remove"
  /\ RemoveReturns(Top.is_malloc,
                   bump_count(
                     helper_exit(
                       [S |-> Scalene, fs |-> fs, high |-> hist.peak, printed |-> 0,
                        folded |-> 0, raised |-> Top.raised, exc |-> "none",
                        drained |-> TRUE],
                       Top.file, Top.is_malloc),
                     Top.file, Top.frame.file, Top.frame.line, Top.frame.lasti,
                     Top.is_malloc))
  /\ UNCHANGED <<sig, clock, wall, driver, join, probe>>

\* what is seen of a tick: the store it found, its arguments, the context r
\* it left (the store, the signals, now, elapsed, total_time, the number of
\* frames retained, the exception that left it), and the signals as stop()
\* leaves them for a report
TickSeen(this_frame, others, p, r) ==
  [op |-> "tick", before |-> Scalene, this_frame |-> this_frame, others |-> others,
   p |-> p, after |-> r.S, now |-> r.now, elapsed |-> r.elapsed,
   total_time |-> r.total_time, retained |-> r.retained, flushed |-> r.flushed,
   exc |-> r.exc, end |-> r.clock, signals |-> r.sig,
   emit |-> stop(Ctx(Scalene, fs, sig, r.now)).sig]

\* the tick handler returned r, and is observed
TickObserved(this_frame, others, p, r) ==
  /\ TickReturns(r)
  /\ probe' = TickSeen(this_frame, others, p, r)

\* cpu_signal_handler on a timer signal, observed
ObservedTick(d, this_frame, others, flush_cost, handler_cost, p) ==
  /\ driver.pc = "running"
  /\ sig.timer_on
  /\ hist.events < MaxEvents
  /\ clock + d + flush_cost + handler_cost <= MaxClock
  /\ flush_cost = 0 \/ clock + d >= Scalene.next_output_time
  /\ TickObserved(this_frame, others, p,
                  cpu_signal_handler(Ctx(Scalene, fs, sig, clock + d),
                                     this_frame, others, flush_cost, handler_cost, p))
  /\ UNCHANGED <<wall, join, stack>>

\* gettime(): time.process_time(), whatever timer was chosen; process_time
\* and wall_time are what the two clocks read
gettime(process_time, wall_time) == process_time

\* the tick handler returned r; the two clocks read process_time and
\* wall_time when it was called
ClockObserved(this_frame, r, process_time, wall_time) ==
  /\ TickReturns(r)
  /\ probe' = TickSeen(this_frame, <<>>, 0, r)
                 @@ [timer |-> Scalene.cpu_timer_signal,
                     process |-> process_time, wall |-> wall_time]

\* cpu_signal_handler on a timer signal, delivered when the target has used
\* d more of process time while w has passed on the wall clock (the target
\* may sleep or wait: w >= d)
ClockTick(d, w, this_frame, flush_cost) ==
  /\ driver.pc = "running"
  /\ sig.timer_on
  /\ hist.events < MaxEvents
  /\ w >= d
  /\ clock + d + flush_cost <= MaxClock
  /\ wall + w + flush_cost <= MaxWall
  /\ flush_cost = 0 \/ gettime(clock + d, wall + w) >= Scalene.next_output_time
  /\ ClockObserved(this_frame,
                   cpu_signal_handler(
                     Ctx(Scalene, fs, sig, gettime(clock + d, wall + w)),
                     this_frame, <<>>, flush_cost, 0, 0),
                   clock + d, wall + w)
  /\ wall' = wall + w + flush_cost
  /\ UNCHANGED <<join, stack>>

\* exec(code, the_globals) ends: it returns, raises, or raises SystemExit(s);
\* "except BaseException: pass" takes all three the same way
TargetEnds(how, s) ==
  /\ driver.pc = "running"
  /\ how = "exit" \/ s = 0
  /\ driver' = [driver EXCEPT !.pc = "ended", !.end = how, !.status = s]
  /\ UNCHANGED <<Scalene, fs, sig, clock, wall, join, hist, stack, probe>>

\* profiler.stop() in main
DriverStop ==
  /\ driver.pc = "ended"
  /\ Becomes(stop(Ctx(Scalene, fs, sig, clock)))
  /\ driver' = [driver EXCEPT !.pc = "stopped"]
  /\ UNCHANGED <<clock, wall, join, hist, stack, probe>>

\* main after output_profiles() gave rep: nothing more for True, the
\* diagnostic for False, the message of "except Exception" for an exception
OutputReturns(rep) ==
  /\ Scalene' = rep.S
  /\ driver' = [driver EXCEPT
                  !.pc = "reported",
                  !.reports = IF rep.result = "True" THEN @ + 1 ELSE @,
                  !.diagnostics = IF rep.result = "False" THEN @ + 1 ELSE @,
                  !.messages = IF rep.result \notin {"True", "False"}
                               THEN @ + 1 ELSE @,
                  !.opened = rep.opened]

\* "if profiler.output_profiles(): pass / else: print(...)" and the handler
\* "except Exception" around it
DriverOutput ==
  /\ driver.pc = "stopped"
  /\ OutputReturns(output_profiles(Scalene))
  /\ UNCHANGED <<fs, sig, clock, wall, join, hist, stack, probe>>

\* main() returns and the interpreter exits: the status of the process
exit_status_of(d) == 0

\* main() returns; exit_handler() runs at exit
DriverExit ==
  /\ driver.pc = "reported"
  /\ sig' = disable_signals(sig)
  /\ driver' = [driver EXCEPT !.pc = "done", !.exit_status = exit_status_of(driver)]
  /\ UNCHANGED <<Scalene, fs, clock, wall, join, hist, stack, probe>>

\* ---------------------------------------------- thread_join_replacement
\* thread.join(timeout) is called: start_time = Scalene.gettime()
JoinCall(has_timeout, t) ==
  /\ driver.pc = "running"
  /\ join.pc = "idle"
  /\ has_timeout \/ t = 0
  /\ join' = [join EXCEPT !.pc = "loop", !.has_timeout = has_timeout,
                          !.timeout = IF has_timeout THEN t ELSE -1,
                          !.start_time = clock, !.called_at = wall]
  /\ UNCHANGED <<Scalene, fs, sig, clock, wall, driver, hist, stack, probe>>

\* "if timeout:" is taken for a timeout that is neither None nor 0
timeout_truthy(j) == j.has_timeout /\ j.timeout # 0

\* "if end_time - start_time >= timeout: return None", end_time being gettime()
join_expired(j, end_time) == timeout_truthy(j) /\ end_time - j.start_time >= j.timeout

\* one turn of the loop on a live thread: original_thread_join(self, interval)
\* waits through the switch interval, the process using cpu clock units of
\* processor time meanwhile, and then the timeout is looked at
JoinWait(cpu) ==
  /\ join.pc = "loop"
  /\ join.alive
  /\ wall + SwitchInterval <= MaxWall
  /\ clock + cpu <= MaxClock
  /\ wall' = wall + SwitchInterval
  /\ clock' = clock + cpu
  /\ join' = [join EXCEPT !.pc = IF join_expired(join, clock + cpu)
                                 THEN "returned" ELSE "loop"]
  /\ UNCHANGED <<Scalene, fs, sig, driver, hist, stack, probe>>

\* "while self.is_alive()" finds the thread terminated
JoinEnds ==
  /\ join.pc = "loop"
  /\ ~join.alive
  /\ join' = [join EXCEPT !.pc = "returned"]
  /\ UNCHANGED <<Scalene, fs, sig, clock, wall, driver, hist, stack, probe>>

\* the joined thread terminates
ThreadExit ==
  /\ driver.pc = "running"
  /\ join.alive
  /\ join' = [join EXCEPT !.alive = FALSE]
  /\ UNCHANGED <<Scalene, fs, sig, clock, wall, driver, hist, stack, probe>>

\* the caller goes on after join returned, and may join again
JoinAgain ==
  /\ join.pc = "returned"
  /\ join.alive
  /\ join' = [join EXCEPT !.pc = "idle"]
  /\ UNCHANGED <<Scalene, fs, sig, clock, wall, driver, hist, stack, probe>>

\* ------------------------------------------------- should_trace, by itself
\* the pieces a file name is made of
PathSymbols ==
  {"/", "p", "2", "a", "<", "site-packages", "usr/lib/python", "scalene.py"}

\* the file names should_trace is asked about: not empty, up to MaxPath pieces
TracePaths == SeqsUpTo(PathSymbols, MaxPath) \ {<<>>}

InitTrace == InitStore /\ probe \in { [op |-> "path", path |-> f] : f \in TracePaths }

\* Scalene.should_trace(probe.path)
ShouldTrace ==
  /\ probe.op = "path"
  /\ probe' = [op |-> "should_trace", path |-> probe.path,
               result |-> should_trace(probe.path, fs.cwd, Scalene.program_path)]
  /\ UNCHANGED <<Scalene, fs, sig, clock, wall, driver, join, hist, stack>>

\* ---------------------------------------------------- sparkline, by itself
\* the numbers and the bounds sparkline is called with; -1 stands for a
\* bound that is not given
SparkInputs ==
  { [op |-> "numbers", numbers |-> xs, fixed_min |-> mn, fixed_max |-> mx] :
      xs \in SeqsUpTo(-1..MaxNumber, MaxNumbers), mn \in -1..MaxNumber,
      mx \in -1..MaxNumber }

InitSpark == InitStore /\ probe \in SparkInputs

\* Scalene.sparkline(probe.numbers, probe.fixed_min, probe.fixed_max)
Sparkline ==
  /\ probe.op = "numbers"
  /\ probe' = [op |-> "sparkline", numbers |-> probe.numbers,
               fixed_min |-> probe.fixed_min, fixed_max |-> probe.fixed_max,
               result |-> sparkline(probe.numbers, probe.fixed_min, probe.fixed_max)]
  /\ UNCHANGED <<Scalene, fs, sig, clock, wall, driver, join, hist, stack>>

\* some reservoir of S holds its samples in another order than the sorted one
Unsorted(S) ==
  \/ S.memory_footprint_samples.sample_array
       # SortPairs(S.memory_footprint_samples.sample_array)
  \/ \E f \in DOMAIN S.per_line_footprint_samples :
       \E l \in DOMAIN S.per_line_footprint_samples[f] :
         S.per_line_footprint_samples[f][l].sample_array
           # SortPairs(S.per_line_footprint_samples[f][l].sample_array)

\* what a caller of output_profiles() has in hand: the value returned or the
\* exception raised, and what was printed
Output(rep) == [result |-> rep.result, out |-> rep.out]

\* the state after output_profiles() gave first and then second
TwiceReturns(first, second) ==
  /\ Scalene' = second.S
  /\ probe' = [op |-> "twice", first |-> Output(first), second |-> Output(second),
               unsorted |-> Unsorted(Scalene)]

\* the second of two calls of output_profiles() in succession
ReportAgain(first) == TwiceReturns(first, output_profiles(first.S))

\* output_profiles() is called twice in succession, no handler in between
ReportTwice ==
  /\ driver.pc \in {"running", "stopped"}
  /\ probe.op = "none"
  /\ ReportAgain(output_profiles(Scalene))
  /\ UNCHANGED <<fs, sig, clock, wall, driver, join, hist, stack>>

\* the next-state relation, over the inputs I
NextOver(I) ==
  \/ Start
  \/ \E kind \in I.kinds : AllocatorOpen(kind)
  \/ \E kind \in I.kinds, line \in I.lines : AllocatorAppend(kind, line)
  \/ \E kind \in Kinds, frame \in I.aframes : AllocSignal(kind, frame)
  \/ \E d \in I.ds, this_frame \in I.mains, others \in I.others,
        flush_cost \in 0..1, handler_cost \in I.costs, p \in Draws :
       CpuTick(d, this_frame, others, flush_cost, handler_cost, p)
  \/ \E how \in I.ends, s \in I.statuses : TargetEnds(how, s)
  \/ DriverStop
  \/ DriverOutput
  \/ DriverExit

Next == NextOver(DriverInputs)
\* the handlers, every tick observed
NextTick ==
  \/ Start
  \/ \E kind \in TickInputs.kinds : AllocatorOpen(kind)
  \/ \E kind \in TickInputs.kinds, line \in TickInputs.lines : AllocatorAppend(kind, line)
  \/ \E kind \in Kinds, frame \in TickInputs.aframes : AllocSignal(kind, frame)
  \/ \E d \in TickInputs.ds, this_frame \in TickInputs.mains,
        others \in TickInputs.others, flush_cost \in 0..1,
        handler_cost \in TickInputs.costs, p \in Draws :
       ObservedTick(d, this_frame, others, flush_cost, handler_cost, p)

\* the allocation handlers, a call at a time
NextNest ==
  \/ Start
  \/ \E kind \in NestInputs.kinds : AllocatorOpen(kind)
  \/ \E kind \in NestInputs.kinds, line \in NestInputs.lines : AllocatorAppend(kind, line)
  \/ \E kind \in Kinds, frame \in NestInputs.aframes : AllocEnter(kind, frame)
  \/ Drain

\* the allocation handlers, the read and the removal of a bridge file apart
NextRace ==
  \/ Start
  \/ \E kind \in RaceInputs.kinds : AllocatorOpen(kind)
  \/ \E kind \in RaceInputs.kinds, line \in RaceInputs.lines : AllocatorAppend(kind, line)
  \/ \E kind \in Kinds, frame \in RaceInputs.aframes : AllocEnter(kind, frame)
  \/ ReadStep
  \/ RemoveStep

\* the allocation handlers, every call observed
NextAlloc ==
  \/ Start
  \/ \E kind \in AllocInputs.kinds : AllocatorOpen(kind)
  \/ \E kind \in AllocInputs.kinds, line \in AllocInputs.lines : AllocatorAppend(kind, line)
  \/ \E kind \in Kinds, frame \in AllocInputs.aframes : ObservedAlloc(kind, frame)

\* the tick handler under both clocks
NextClock ==
  \/ Start
  \/ \E d \in 0..Interval, w \in 0..MaxWall, this_frame \in TickInputs.mains,
        flush_cost \in 0..1 :
       ClockTick(d, w, this_frame, flush_cost)

NextReport == NextOver(ReportInputs) \/ ReportTwice
NextMem == NextOver(MemInputs)
NextCpu == NextOver(CpuInputs)

\* the target joins a thread; nothing else runs
NextJoin ==
  \/ Start
  \/ \E has_timeout \in BOOLEAN, t \in 0..MaxTimeout : JoinCall(has_timeout, t)
  \/ \E cpu \in 0..SwitchInterval : JoinWait(cpu)
  \/ JoinEnds
  \/ ThreadExit
  \/ JoinAgain

Spec == Init /\ [][Next]_vars
SpecMem == Init /\ [][NextMem]_vars
SpecCpu == Init /\ [][NextCpu]_vars
SpecJoin == Init /\ [][NextJoin]_vars
SpecReport == Init /\ [][NextReport]_vars
SpecNest == Init /\ [][NextNest]_vars
SpecAlloc == Init /\ [][NextAlloc]_vars
SpecClock == InitClock /\ [][NextClock]_vars
SpecRace == Init /\ [][NextRace]_vars
SpecTick == Init /\ [][NextTick]_vars
SpecFlush == InitFlush /\ [][NextTick]_vars
SpecTrace == InitTrace /\ [][ShouldTrace]_vars
SpecSpark == InitSpark /\ [][Sparkline]_vars

\* ---------------------------------------------------------------- claims
\* C1: between deliveries of the allocation signals, whatever the frames and
\* the bridge files were, current_footprint is total_memory_malloc_samples
\* minus total_memory_free_samples.
C1_FootprintIsMallocMinusFree ==
  Scalene.current_footprint
    = Scalene.total_memory_malloc_samples - Scalene.total_memory_free_samples

\* malloc and free samples were folded in and a malformed line cut a drain short
C1_Witness ==
  /\ Scalene.total_memory_malloc_samples > 0
  /\ Scalene.total_memory_free_samples > 0
  /\ hist.printed > 0

\* C2: max_footprint is never below current_footprint, it is the largest
\* value current_footprint has taken since the start (0 included), and no
\* step lowers it.
C2_MaxIsRunningMaximum ==
  /\ [](Scalene.max_footprint >= Scalene.current_footprint
        /\ Scalene.max_footprint = hist.peak)
  /\ [][Scalene'.max_footprint >= Scalene.max_footprint]_vars

\* a free sample took current_footprint below a maximum a malloc sample set
C2_Witness ==
  /\ Scalene.max_footprint > 0
  /\ Scalene.total_memory_free_samples > 0
  /\ Scalene.current_footprint < Scalene.max_footprint

\* offset o is known for line l of file f
KnownOffset(f, l, o) ==
  /\ f \in DOMAIN Scalene.bytei_map
  /\ l \in DOMAIN Scalene.bytei_map[f]
  /\ o \in Scalene.bytei_map[f][l]

\* C3: every offset that is a key of the malloc or free sample tables, or of
\* the two count tables, at a line of a file is in bytei_map for that line.
C3_OffsetsAreKnown ==
  /\ \A k \in Keys3(Scalene.memory_malloc_samples) : KnownOffset(k[1], k[2], k[3])
  /\ \A k \in Keys3(Scalene.memory_free_samples) : KnownOffset(k[1], k[2], k[3])
  /\ \A k \in Keys3(Scalene.memory_malloc_count) : KnownOffset(k[1], k[2], k[3])
  /\ \A k \in Keys3(Scalene.memory_free_count) : KnownOffset(k[1], k[2], k[3])

\* samples were folded in at two offsets of one line, malloc and free
C3_Witness ==
  /\ \E k \in Keys3(Scalene.memory_malloc_samples) :
       /\ Scalene.memory_malloc_samples[k[1]][k[2]][k[3]] > 0
       /\ Cardinality(Scalene.bytei_map[k[1]][k[2]]) > 1
  /\ Keys3(Scalene.memory_free_count) # {}

\* the sum of all entries of the two CPU tables
CpuTablesSum == Sum2(Scalene.cpu_samples_python) + Sum2(Scalene.cpu_samples_c)

\* C4 as stated: the two CPU tables sum to total_cpu_samples after any ticks,
\* a tick that retains no frame included.
C4_SumEqualsTotal == CpuTablesSum = Scalene.total_cpu_samples

\* C4, amended: the two CPU tables sum to total_cpu_samples less the
\* total_time of the ticks that retained no frame.
C4_SumEqualsTotalOfRetainedTicks ==
  CpuTablesSum + hist.unattributed = Scalene.total_cpu_samples

\* one tick retained no frame, another shared its time between the main
\* frame and a thread in a call
C4_Witness ==
  /\ hist.unattributed > 0
  /\ ProgFile \in DOMAIN Scalene.cpu_samples_c
  /\ MaxLine \in DOMAIN Scalene.cpu_samples_c[ProgFile]
  /\ Scalene.cpu_samples_c[ProgFile][MaxLine] > 0
  /\ ProgFile \in DOMAIN Scalene.cpu_samples_python
  /\ 1 \in DOMAIN Scalene.cpu_samples_python[ProgFile]
  /\ Scalene.cpu_samples_python[ProgFile][1] > 0

\* every entry of the table d is at least 0
NonNegative(d) == \A k \in Keys2(d) : d[k[1]][k[2]] >= 0

\* every entry of the table d is still in e, and no smaller there
NotBelow(d, e) ==
  \A k \in Keys2(d) :
    /\ k[1] \in DOMAIN e
    /\ k[2] \in DOMAIN e[k[1]]
    /\ e[k[1]][k[2]] >= d[k[1]][k[2]]

\* C5: every entry of cpu_samples_python and cpu_samples_c is at least 0, and
\* no step makes an entry smaller, whatever elapsed time a tick measures.
C5_CpuTablesNonNegativeAndGrowing ==
  /\ [](NonNegative(Scalene.cpu_samples_python) /\ NonNegative(Scalene.cpu_samples_c))
  /\ [][/\ NotBelow(Scalene.cpu_samples_python, Scalene'.cpu_samples_python)
        /\ NotBelow(Scalene.cpu_samples_c, Scalene'.cpu_samples_c)]_vars

\* a tick that retained a frame measured a negative elapsed time
C5_Witness ==
  /\ hist.negative
  /\ Keys2(Scalene.cpu_samples_c) # {}

\* C6: once main is past the report, however the target ended, profiling is
\* stopped (timer off, both allocation signals ignored) and either the final
\* report was emitted, once, or the short-run diagnostic was printed instead.
C6_StopThenReportOrDiagnostic ==
  driver.pc \in {"reported", "done"} =>
    /\ ~sig.timer_on
    /\ sig.malloc_signal = "SIG_IGN"
    /\ sig.free_signal = "SIG_IGN"
    /\ \/ driver.reports = 1 /\ driver.diagnostics = 0
       \/ driver.reports = 0 /\ driver.diagnostics = 1

\* C7: no exception leaves the tick handler or the allocation handler.
C7_NoExceptionLeavesAHandler == hist.escaped = {}

\* C8: at the end of the run, with the three totals all zero output_profiles
\* opened no output and exactly one diagnostic was printed; with a total that
\* is not zero it returned True and no diagnostic was printed.
C8_DiagnosticIffNothingSampled ==
  driver.pc \in {"reported", "done"} =>
    IF nothing_to_output(Scalene)
    THEN ~driver.opened /\ driver.diagnostics = 1 /\ driver.reports = 0
    ELSE driver.reports = 1 /\ driver.diagnostics = 0

\* C9: when the target asked to exit with status s, the profiler exits with s.
C9_ExitStatusIsTheTargets ==
  driver.pc = "done" /\ driver.end = "exit" => driver.exit_status = driver.status

\* C10: a join with timeout t on a thread that stays alive is not still
\* waiting when t has passed on the wall clock since the call (the wait of
\* one switch interval that was under way allowed for).
C10_JoinReturnsAtTimeout ==
  join.pc = "loop" /\ join.has_timeout /\ join.alive =>
    wall - join.called_at < join.timeout + SwitchInterval

\* the file name begins with the pieces of prefix
BeginsWith(filename, prefix) ==
  Len(filename) >= Len(prefix) /\ SubSeq(filename, 1, Len(prefix)) = prefix

\* the path lies below the directory dir
IsDescendant(path, dir) ==
  /\ Len(path) > Len(dir) + 1
  /\ BeginsWith(path, dir \o <<"/">>)

\* the reference predicate of C11 for a file name that is not empty
TraceReference(filename, cwd, program_path) ==
  IF \/ filename[1] = "<"
     \/ Contains(filename, "site-packages")
     \/ BeginsWith(filename, StdlibPrefix)
     \/ filename = ScaleneFile
  THEN "False"
  ELSE IF IsDescendant(abspath(filename, cwd), program_path) THEN "True" ELSE "False"

\* C11: should_trace(p) is the reference predicate for every path p: False for
\* a name that begins with '<', contains 'site-packages', begins with the
\* standard-library prefix or is the profiler's own source file, otherwise
\* True exactly when the absolute form of p lies below program_path.
C11_ShouldTraceIsTheReference ==
  probe.op = "should_trace" =>
    probe.result = TraceReference(probe.path, fs.cwd, Scalene.program_path)

\* floor(a / b) for b > 0
FloorDiv(a, b) == a \div b

\* clamp(i, 0, 7)
Clamp(i) == IF i < 0 THEN 0 ELSE IF i > barcount - 1 THEN barcount - 1 ELSE i

\* the bar C14 gives the element n between the bounds mn and mx
ReferenceBar(n, mn, mx) ==
  Clamp(FloorDiv((n - mn) * barcount, IF mx - mn > 1 THEN mx - mn ELSE 1))

\* C12: two calls of output_profiles() in succession, with no handler
\* delivered between them, return the same value (or raise the same
\* exception) and print the same text, whatever state the first call found.
C12_ReportTwiceIsTheSame ==
  probe.op = "twice" => probe.first = probe.second

C12_Witness ==
  /\ probe.op = "twice"
  /\ probe.unsorted
  /\ probe.first.result = "True"
  /\ Len(probe.first.out) > 1

\* C14: for all numbers and bounds (both given), sparkline returns one bar
\* per number, the bar of n being the one at index
\* clamp(floor((n - min) / extent * 8), 0, 7) with extent = max(max - min, 1).
C14_SparklineIsTheReference ==
  probe.op = "sparkline" /\ probe.fixed_min # -1 /\ probe.fixed_max # -1 =>
    /\ probe.result.exc = "none"
    /\ Len(probe.result.sparkline) = Len(probe.numbers)
    /\ \A k \in 1..Len(probe.numbers) :
         probe.result.sparkline[k]
           = ReferenceBar(probe.numbers[k], probe.fixed_min, probe.fixed_max)

\* the value a table of two levels gives at (f, l), 0 where it holds no key
At2(d, f, l) == IF f \in DOMAIN d /\ l \in DOMAIN d[f] THEN d[f][l] ELSE 0

\* the value a table of three levels gives at (f, l, i), 0 where it holds no key
At3(d, f, l, i) ==
  IF f \in DOMAIN d /\ l \in DOMAIN d[f] /\ i \in DOMAIN d[f][l] THEN d[f][l][i] ELSE 0

\* the names a table can hold
FileNames == {EmptyFile, ProgFile, LibFile}

\* two tables give the same value everywhere
Same2(a, b) == \A f \in FileNames, l \in Lines : At2(a, f, l) = At2(b, f, l)

Same3(a, b) ==
  \A f \in FileNames, l \in Lines, i \in Offsets : At3(a, f, l, i) = At3(b, f, l, i)

\* two reservoirs hold the same samples and have seen as many
SameSamples(a, b) ==
  /\ a.max_samples = b.max_samples
  /\ a.total_samples = b.total_samples
  /\ SortPairs(a.sample_array) = SortPairs(b.sample_array)

\* the reservoir of a line, the empty one where none is kept
ReservoirAt(d, f, l) ==
  IF f \in DOMAIN d /\ l \in DOMAIN d[f] THEN d[f][l] ELSE EmptyReservoir(LineCapacity)

\* the four allocation tables of a and b give the same values
SameAllocationTables(a, b) ==
  /\ Same3(a.memory_malloc_samples, b.memory_malloc_samples)
  /\ Same3(a.memory_malloc_count, b.memory_malloc_count)
  /\ Same3(a.memory_free_samples, b.memory_free_samples)
  /\ Same3(a.memory_free_count, b.memory_free_count)

\* C19: on every tick that returns, one with a flush due included, elapsed is
\* now minus the last_signal_time the tick found, the time attributed is
\* last_signal_interval plus max(0, elapsed - last_signal_interval), and the
\* tick leaves last_signal_time at the now it read at its entry.
C19_TickTimesFromThePreviousTick ==
  (probe.op = "tick" /\ probe.exc = "none") =>
    /\ probe.elapsed = probe.now - probe.before.last_signal_time
    /\ probe.total_time
         = probe.before.last_signal_interval
           + (IF probe.elapsed - probe.before.last_signal_interval > 0
              THEN probe.elapsed - probe.before.last_signal_interval ELSE 0)
    /\ probe.after.last_signal_time = probe.now

\* every frame the tick was given is dropped: no frame at all, or library code
NoFrameRetained ==
  \A k \in 1..Len(<<probe.this_frame>> \o probe.others) :
    \/ (<<probe.this_frame>> \o probe.others)[k].none
    \/ (<<probe.this_frame>> \o probe.others)[k].file = LibFile

\* a tick that retains no frame, its flush (if one was due) not having failed
TickOfNoFrame ==
  /\ probe.op = "tick"
  /\ probe.exc # "FileNotFoundError"
  /\ NoFrameRetained

SamplesOf(S, is_malloc) ==
  IF is_malloc THEN S.memory_malloc_samples ELSE S.memory_free_samples

CountOf(S, is_malloc) ==
  IF is_malloc THEN S.memory_malloc_count ELSE S.memory_free_count

TotalOf(S, is_malloc) ==
  IF is_malloc THEN S.total_memory_malloc_samples ELSE S.total_memory_free_samples

\* the value of a table at the site of the drain observed
AtSite(d) == At3(d, probe.frame.file, probe.frame.line, probe.frame.lasti)

\* a drain that read no line: the bridge file was missing, or had no line
DrainOfNoLine ==
  /\ probe.op = "drain"
  /\ ~probe.file.exists \/ probe.file.lines = <<>>

\* C13: a call of alloc_handler_helper that reads no line, the bridge file
\* being missing or empty, raises nothing and prints nothing, leaves the
\* kind's samples and counts at every site, both totals, current_footprint
\* and max_footprint as they were, and leaves no bridge file of the kind.
C13_DrainOfNoLineChangesNothing ==
  DrainOfNoLine =>
    /\ probe.exc = "none"
    /\ probe.printed = 0
    /\ Same3(SamplesOf(probe.before, probe.is_malloc),
             SamplesOf(probe.after, probe.is_malloc))
    /\ Same3(CountOf(probe.before, probe.is_malloc),
             CountOf(probe.after, probe.is_malloc))
    /\ probe.after.total_memory_malloc_samples
         = probe.before.total_memory_malloc_samples
    /\ probe.after.total_memory_free_samples = probe.before.total_memory_free_samples
    /\ probe.after.current_footprint = probe.before.current_footprint
    /\ probe.after.max_footprint = probe.before.max_footprint
    /\ ~probe.left.exists

C13_Witness ==
  /\ DrainOfNoLine
  /\ probe.file.exists
  /\ AtSite(CountOf(probe.before, probe.is_malloc)) > 0
  /\ probe.before.max_footprint > 0

RECURSIVE SumCounts(_)
\* the sum of the counts of the lines float() accepts
SumCounts(lines) ==
  IF lines = <<>> THEN 0
  ELSE (IF Head(lines).kind = "int" THEN ParseCount(Head(lines)) ELSE 0)
         + SumCounts(Tail(lines))

\* a drain of a file that holds a malformed line among well-formed ones
DrainOfMixedFile ==
  /\ probe.op = "drain"
  /\ probe.file.exists
  /\ \E k \in 1..Len(probe.file.lines) : probe.file.lines[k].kind # "int"
  /\ \E k \in 1..Len(probe.file.lines) : probe.file.lines[k].kind = "int"

\* C15: a call of alloc_handler_helper on a file with a malformed line among
\* well-formed ones adds every well-formed line, before and after the
\* malformed one, to the site's samples and to the kind's total, raises
\* nothing, and removes the file.
C15_MalformedLineAloneIsSkipped ==
  DrainOfMixedFile =>
    /\ probe.exc = "none"
    /\ AtSite(SamplesOf(probe.after, probe.is_malloc))
         = AtSite(SamplesOf(probe.before, probe.is_malloc)) + SumCounts(probe.file.lines)
    /\ TotalOf(probe.after, probe.is_malloc)
         = TotalOf(probe.before, probe.is_malloc) + SumCounts(probe.file.lines)
    /\ ~probe.left.exists

\* C16: a call of alloc_handler_helper raises the kind's count at the site by
\* 1 when it folded at least one line into the samples, however many lines
\* it folded, and leaves the count as it was when it folded none.
C16_CountGrowsByOneIffSampleFolded ==
  probe.op = "drain" =>
    AtSite(CountOf(probe.after, probe.is_malloc))
      = AtSite(CountOf(probe.before, probe.is_malloc))
        + (IF probe.folded >= 1 THEN 1 ELSE 0)

\* C17: no invocation of a handler begins while another is under way: at most
\* one invocation exists at any time.
C17_OneHandlerAtATime == Len(stack) <= 1

\* the timer disarmed and both allocation signals ignored
SignalsOff(sg) ==
  /\ ~sg.timer_on
  /\ sg.malloc_signal = "SIG_IGN"
  /\ sg.free_signal = "SIG_IGN"
  /\ sg.pending = {}

\* the timer armed and both allocation handlers installed
SignalsOn(sg) ==
  /\ sg.timer_on
  /\ sg.malloc_signal = "handler"
  /\ sg.free_signal = "handler"

\* C18: a tick that flushes a report has the timer disarmed and both
\* allocation signals ignored when the report starts, so that no handler is
\* called during it, and has all three signals enabled again when it is over.
C18_SignalsOffForTheReportAndOnAfter ==
  (probe.op = "tick" /\ probe.flushed) =>
    /\ SignalsOff(probe.emit)
    /\ SignalsOn(probe.signals)

\* k intervals after 0, the time main() initialised next_output_time at
IntervalsAfterStart(k) ==
  IF Scalene.output_profile_interval = Inf THEN Inf
  ELSE k * Scalene.output_profile_interval

\* C21: a tick flushes a report exactly when now >= next_output_time, and
\* then (once) adds the interval to next_output_time, which no tick changes
\* otherwise; so next_output_time is the interval times the number of
\* flushes plus one, the k-th flush is not before k intervals have passed,
\* and with the infinite interval no tick flushes.
C21_FlushExactlyWhenDue ==
  /\ probe.op = "tick" =>
       /\ probe.flushed <=> probe.now >= probe.before.next_output_time
       /\ probe.after.next_output_time
            = IF probe.flushed
              THEN AddInf(probe.before.next_output_time,
                          probe.before.output_profile_interval)
              ELSE probe.before.next_output_time
  /\ Scalene.next_output_time = IntervalsAfterStart(hist.flushes + 1)
  /\ hist.flushes > 0 => clock >= IntervalsAfterStart(hist.flushes)
  /\ Scalene.output_profile_interval = Inf => hist.flushes = 0

C21_Witness ==
  /\ probe.op = "tick"
  /\ probe.flushed
  /\ probe.exc = "none"
  /\ hist.flushes = 2
  /\ hist.escaped = {}

\* the lines a bridge file holds
Pending(file) == IF file.exists THEN Len(file.lines) ELSE 0

\* C22: while no handler is running, every line appended so far (each of 1 MB
\* and well-formed, one per event) is either still in its bridge file or
\* was added to a total exactly once: none was added twice, none was lost.
C22_EveryLineFoldedOnce ==
  stack = <<>> =>
    Scalene.total_memory_malloc_samples + Scalene.total_memory_free_samples
      + Pending(fs.malloc) + Pending(fs.free) = hist.events

\* a call of the allocation handler on a frame whose file should_trace rejects
UntracedSignal ==
  /\ probe.op = "alloc"
  /\ probe.traced = "False"

\* C23: a call of the allocation handler on a frame whose file should_trace
\* rejects returns with the store as it was (every table, total, footprint
\* and known-offset set) and both bridge files as they were, lines included.
C23_UntracedSignalChangesNothing ==
  UntracedSignal =>
    /\ probe.exc = "none"
    /\ probe.after = probe.before
    /\ probe.left = probe.files

C23_Witness ==
  /\ UntracedSignal
  /\ Pending(probe.files.malloc) > 0
  /\ probe.files.free.exists
  /\ probe.before.total_memory_malloc_samples > 0

\* the known offsets of (f, l), none where the map holds no key
OffsetsAt(bm, f, l) ==
  IF f \in DOMAIN bm /\ l \in DOMAIN bm[f] THEN bm[f][l] ELSE {}

\* C26: an offset is in bytei_map[file][line] only if a malloc or a free
\* sample was folded in at (file, line, offset), and a call of the handler
\* that folded no line leaves every set of known offsets as it was.
C26_KnownOffsetsHaveSamples ==
  /\ \A f \in FileNames, l \in Lines, i \in Offsets :
       i \in OffsetsAt(Scalene.bytei_map, f, l) =>
         \/ At3(Scalene.memory_malloc_samples, f, l, i) > 0
         \/ At3(Scalene.memory_free_samples, f, l, i) > 0
  /\ (probe.op = "alloc" /\ probe.folded = 0) =>
       \A f \in FileNames, l \in Lines :
         OffsetsAt(probe.after.bytei_map, f, l) = OffsetsAt(probe.before.bytei_map, f, l)

\* the (file, line) keys a table holds
Keys(d) == { <<f, l>> : f \in DOMAIN d, l \in Lines } \cap
             UNION { { <<f, l>> : l \in DOMAIN d[f] } : f \in DOMAIN d }

\* the (file, line) keys of every table of the store
KeySets(S) ==
  [cpu_samples_python |-> Keys(S.cpu_samples_python),
   cpu_samples_c |-> Keys(S.cpu_samples_c),
   memory_malloc_samples |-> Keys(S.memory_malloc_samples),
   memory_malloc_count |-> Keys(S.memory_malloc_count),
   memory_free_samples |-> Keys(S.memory_free_samples),
   memory_free_count |-> Keys(S.memory_free_count),
   bytei_map |-> Keys(S.bytei_map),
   per_line_footprint_samples |-> Keys(S.per_line_footprint_samples)]

\* a call of the allocation handler on a traced frame that found no bridge
\* file to drain
UndrainedSignal ==
  /\ probe.op = "alloc"
  /\ probe.traced = "True"
  /\ ~probe.files.malloc.exists
  /\ ~probe.files.free.exists

\* C24: reading a (file, line) never written inserts no key: after an
\* allocation signal that drained nothing, every table holds the keys it held.
C24_ReadsInsertNoKey ==
  UndrainedSignal => KeySets(probe.after) = KeySets(probe.before)

\* C25: the elapsed_time the final report shows is the time from the first
\* start() to the final stop(): main called start() at process time 0 and
\* the clock has stood still since stop(), so it is the clock's reading.
C25_ElapsedTimeIsTheWholeRun ==
  driver.pc = "stopped" => output_profiles(Scalene).elapsed_time = clock

\* C27: the now a tick reads (from which elapsed is taken and which is
\* compared with next_output_time) is the reading of the clock the interval
\* timer runs on: the wall clock with ITIMER_REAL, process time otherwise.
C27_NowIsOnTheTimersClock ==
  (probe.op = "tick" /\ "timer" \in DOMAIN probe) =>
    probe.now = IF probe.timer = "ITIMER_REAL" THEN probe.wall
                ELSE probe.process

====
